---- MODULE Spec2Model ----
(***************************************************************************)
(* Model of the Si5351A quadrature tuning routines                         *)
(*   examples/si5351-clock-generator/files/sdr/Si5351_routines.c           *)
(*   examples/si5351-clock-generator/files/sdr/Si5351SDR.h                 *)
(*                                                                         *)
(* The state is the register file of the chip, the list of I2C register    *)
(* writes issued by the most recent call, and the values of the locals of  *)
(* si5351aSetFrequency when it returned.  `unsigned long' is 32 bits wide  *)
(* and `float' is a binary floating point number with a 24 bit             *)
(* significand; the rounding of a float operation is left to the build, so *)
(* it is a choice between round-to-nearest-even and truncation.            *)
(***************************************************************************)
EXTENDS Integers, Naturals, Sequences, FiniteSets, TLC

VARIABLES regs,        \* register file of the Si5351A: address -> byte
          writes,      \* I2C register writes of the most recent call, in order
          call,        \* the most recent call and its arguments
          plan,        \* locals of si5351aSetFrequency at its return
          prevDivider, \* divider of the call before the most recent one, 0 if none
          regs0,       \* register file before the first call
          rounding     \* rounding of float operations in this build

vars == <<regs, writes, call, plan, prevDivider, regs0, rounding>>

(***************************************************************************)
(* Bounds of the model.                                                    *)
(***************************************************************************)
FreqStep == 1100000      \* spacing of the frequency grid, Hz
FreqSteps == 29          \* grid points 0, FreqStep, ..., FreqSteps*FreqStep
NearSpan == 2            \* frequencies within NearSpan Hz of each band edge
NumStep == 95325         \* spacing of the numerator grid
NumSteps == 11           \* grid points 0, NumStep, ..., NumSteps*NumStep (below denom)
MultStep == 25           \* spacing of the multiplier grid, from 15 upwards
MultSteps == 3           \* grid points 15, 15+MultStep, ...

(***************************************************************************)
(* Si5351SDR.h                                                             *)
(***************************************************************************)
Si5351A_XTAL_FREQ == 24999117
SI_SYNTH_PLL_A == 26
SI_SYNTH_PLL_B == 34
SI_SYNTH_MS_0 == 42
SI_SYNTH_MS_1 == 50
SI_SYNTH_MS_2 == 58
SI_PLL_RESET == 177
SI_R_DIV_1 == 0
CLK_ENABLE_CONTROL == 3
PLLX_SRC == 15
SI_CLK0_CONTROL == 16
SI_CLK1_CONTROL == 17
SI_CLK2_CONTROL == 18
XTAL_LOAD_CAP == 183
CLK0_PHOFF == 165
CLK1_PHOFF == 166

RegAddr == 0..255

(***************************************************************************)
(* float: [m, e] stands for m * 2^e with m = 0 or 2^23 <= m < 2^24.        *)
(***************************************************************************)
RoundingModes == {"nearest", "chop"}

\* q is the significand cut off, r/d in [0,1) the part cut off.
RoundSig(q, r, d) ==
    IF rounding = "nearest" /\ (2 * r > d \/ (2 * r = d /\ q % 2 = 1))
    THEN q + 1 ELSE q

Renorm(m, e) ==
    IF m = 16777216 THEN [m |-> 8388608, e |-> e + 1] ELSE [m |-> m, e |-> e]

RECURSIVE BitLen(_)
BitLen(n) == IF n = 0 THEN 0 ELSE 1 + BitLen(n \div 2)

\* (float) n for an unsigned long 0 <= n < 2^31
ULongToFloat(n) ==
    LET b == BitLen(n) IN
    IF n = 0 THEN [m |-> 0, e |-> 0]
    ELSE IF b <= 24 THEN [m |-> n * 2^(24 - b), e |-> b - 24]
    ELSE LET s == b - 24
             d == 2^s
         IN  Renorm(RoundSig(n \div d, n % d, d), s)

\* a * b: the 48 bit product of the significands is H * 2^24 + L
FloatMul(a, b) ==
    IF a.m = 0 \/ b.m = 0 THEN [m |-> 0, e |-> 0]
    ELSE
    LET a1 == a.m \div 4096
        a0 == a.m % 4096
        b1 == b.m \div 4096
        b0 == b.m % 4096
        mid == a1 * b0 + a0 * b1
        Lw == (mid % 4096) * 4096 + a0 * b0
        H == a1 * b1 + (mid \div 4096) + (Lw \div 16777216)
        L == Lw % 16777216
    IN  IF H >= 8388608
        THEN Renorm(RoundSig(H, L, 16777216), a.e + b.e + 24)
        ELSE Renorm(RoundSig(2 * H + (L \div 8388608), L % 8388608, 8388608),
                    a.e + b.e + 23)

\* k more quotient bits of r / b by long division; r < b
RECURSIVE LongDiv(_, _, _, _)
LongDiv(r, b, k, q) ==
    IF k = 0 THEN <<q, r>>
    ELSE IF 2 * r >= b THEN LongDiv(2 * r - b, b, k - 1, 2 * q + 1)
         ELSE LongDiv(2 * r, b, k - 1, 2 * q)

\* a / b, b # 0
FloatDiv(a, b) ==
    IF a.m = 0 THEN [m |-> 0, e |-> 0]
    ELSE
    LET k == IF a.m >= b.m THEN 23 ELSE 24
        qr == LongDiv(a.m % b.m, b.m, k, a.m \div b.m)
    IN  Renorm(RoundSig(qr[1], qr[2], b.m), a.e - b.e - k)

\* (unsigned long) f: the fraction is discarded
FloatToULong(f) ==
    IF f.e >= 0 THEN f.m * 2^(f.e)
    ELSE IF -f.e >= 24 THEN 0
    ELSE f.m \div 2^(-f.e)

(***************************************************************************)
(* unsigned long: the 32 bit value of an integer x, as two 16 bit halves.  *)
(***************************************************************************)
ULong(x) == [hi |-> (x \div 65536) % 65536, lo |-> x % 65536]

RECURSIVE BitOr(_, _)
BitOr(a, b) ==
    IF a = 0 THEN b
    ELSE IF b = 0 THEN a
    ELSE (IF a % 2 = 1 \/ b % 2 = 1 THEN 1 ELSE 0) + 2 * BitOr(a \div 2, b \div 2)

Bits15to8(P) == P.lo \div 256           \* (P & 0x0000FF00) >> 8
Bits7to0(P) == P.lo % 256               \* (P & 0x000000FF)
Bits17to16(P) == P.hi % 4               \* (P & 0x00030000) >> 16
Bits19to16High(P) == (P.hi % 16) * 16   \* (P & 0x000F0000) >> 12
Bits19to16Low(P) == P.hi % 16           \* (P & 0x000F0000) >> 16

(***************************************************************************)
(* Si5351_routines.c                                                       *)
(***************************************************************************)
\* One I2C transaction to address 0xC0; both parameters are of type char.
sendRegister(reg_addr, reg_value) ==
    [reg |-> reg_addr % 256, val |-> reg_value % 256]

\* (unsigned long)(128 * ((float)num / (float)denom)), for num, denom < 2^24
PLLQuotient(num, denom) ==
    FloatToULong(FloatMul(ULongToFloat(128),
                          FloatDiv(ULongToFloat(num), ULongToFloat(denom))))

setupPLL_P1(mult, num, denom) == ULong(128 * mult + PLLQuotient(num, denom) - 512)

setupPLL_P2(num, denom) == ULong(128 * num - denom * PLLQuotient(num, denom))

setupPLL(pll, mult, num, denom) ==
    LET P1 == setupPLL_P1(mult, num, denom)
        P2 == setupPLL_P2(num, denom)
        P3 == ULong(denom)
    IN  << sendRegister(pll + 0, Bits15to8(P3)),
           sendRegister(pll + 1, Bits7to0(P3)),
           sendRegister(pll + 2, Bits17to16(P1)),
           sendRegister(pll + 3, Bits15to8(P1)),
           sendRegister(pll + 4, Bits7to0(P1)),
           sendRegister(pll + 5, BitOr(Bits19to16High(P3), Bits19to16Low(P2))),
           sendRegister(pll + 6, Bits15to8(P2)),
           sendRegister(pll + 7, Bits7to0(P2)) >>

\* Variant: the P2 bytes +5..+7, always 0 for an integer divider, are not written.
setupMultisynth_SkipP2(synth, divider, rDiv) ==
    LET P1 == ULong(128 * divider - 512)
        P3 == ULong(1)
    IN  << sendRegister(synth + 0, Bits15to8(P3)),
           sendRegister(synth + 1, Bits7to0(P3)),
           sendRegister(synth + 2, BitOr(Bits17to16(P1), rDiv)),
           sendRegister(synth + 3, Bits15to8(P1)),
           sendRegister(synth + 4, Bits7to0(P1)) >>

setupMultisynth(synth, divider, rDiv) ==
    LET P1 == ULong(128 * divider - 512)
        P2 == ULong(0)
        P3 == ULong(1)
    IN  << sendRegister(synth + 0, Bits15to8(P3)),
           sendRegister(synth + 1, Bits7to0(P3)),
           sendRegister(synth + 2, BitOr(Bits17to16(P1), rDiv)),
           sendRegister(synth + 3, Bits15to8(P1)),
           sendRegister(synth + 4, Bits7to0(P1)),
           sendRegister(synth + 5, BitOr(Bits19to16High(P3), Bits19to16Low(P2))),
           sendRegister(synth + 6, Bits15to8(P2)),
           sendRegister(synth + 7, Bits7to0(P2)) >>

\* Variant: the band edge itself falls into the upper band.
BandDivider_OffByOne(frequency) ==
    LET d1 == IF frequency < 9050000 THEN 124 ELSE 0
    IN  IF frequency > 9049999 THEN 44 ELSE d1

\* Variant: the band edge mistyped as 9,005,000.
BandDivider_Typo(frequency) ==
    LET d1 == IF frequency < 9005001 THEN 124 ELSE 0
    IN  IF frequency > 9005000 THEN 44 ELSE d1

\* Variant: the lower band is missing, every frequency gets divider 44.
BandDivider_SingleBand(frequency) == 44

\* if(frequency < 9050001)divider = 124; if(frequency > 9050000)divider = 44;
\* one of the two conditions holds for every frequency, so the value the
\* uninitialised local starts with (written 0 here) is never the result.
BandDivider(frequency) ==
    LET d1 == IF frequency < 9050001 THEN 124 ELSE 0
    IN  IF frequency > 9050000 THEN 44 ELSE d1

\* Variant: the remainder is taken by the nominal 25 MHz instead of xtalFreq.
PlanRemainder_Nominal(pllFreq, xtalFreq) == pllFreq % (25 * 1000000)

\* l = pllFreq % xtalFreq
PlanRemainder(pllFreq, xtalFreq) == pllFreq % xtalFreq

\* Variant: the fraction is scaled by 2^20 instead of 2^20 - 1.
PlanNum_Pow2(l, xtalFreq) ==
    LET f1 == ULongToFloat(l)
        f2 == FloatMul(f1, ULongToFloat(1048576))
        f3 == FloatDiv(f2, ULongToFloat(xtalFreq))
    IN  FloatToULong(f3)

\* f = l; f *= 1048575; f /= xtalFreq; num = f;
PlanNum(l, xtalFreq) ==
    LET f1 == ULongToFloat(l)
        f2 == FloatMul(f1, ULongToFloat(1048575))
        f3 == FloatDiv(f2, ULongToFloat(xtalFreq))
    IN  FloatToULong(f3)

\* The locals of si5351aSetFrequency once they are all assigned.  The model
\* calls it with frequencies for which divider * frequency is below 2^31,
\* where the 32 bit product is the exact product.
PlanLocals(frequency) ==
    LET divider == BandDivider(frequency)
        xtalFreq == Si5351A_XTAL_FREQ
        pllFreq == divider * frequency
        l == PlanRemainder(pllFreq, xtalFreq)
    IN  [divider |-> divider,
         pllFreq |-> pllFreq,
         quot |-> pllFreq \div xtalFreq,
         mult |-> (pllFreq \div xtalFreq) % 256,
         l |-> l,
         num |-> PlanNum(l, xtalFreq),
         denom |-> 1048575]

\* Variant: the two phase offsets are exchanged.
PhaseOffsets_Swapped(divider) ==
    << sendRegister(CLK0_PHOFF, 0), sendRegister(CLK1_PHOFF, divider) >>

\* sendRegister(CLK0_PHOFF,divider); sendRegister(CLK1_PHOFF, 0);
PhaseOffsets(divider) ==
    << sendRegister(CLK0_PHOFF, divider), sendRegister(CLK1_PHOFF, 0) >>

\* Variant: the phase offsets are written before the PLL and the Multisynths.
SetFrequencyWrites_PhaseFirst(p) ==
    PhaseOffsets(p.divider)
    \o setupPLL(SI_SYNTH_PLL_A, p.mult, p.num, p.denom)
    \o setupMultisynth(SI_SYNTH_MS_0, p.divider, SI_R_DIV_1)
    \o setupMultisynth(SI_SYNTH_MS_1, p.divider, SI_R_DIV_1)

\* Variant: a PLL reset (register 177, value 0xA0) follows a change of divider.
SetFrequencyWrites_ResetOnBandChange(p) ==
    setupPLL(SI_SYNTH_PLL_A, p.mult, p.num, p.denom)
    \o setupMultisynth(SI_SYNTH_MS_0, p.divider, SI_R_DIV_1)
    \o setupMultisynth(SI_SYNTH_MS_1, p.divider, SI_R_DIV_1)
    \o PhaseOffsets(p.divider)
    \o (IF plan.divider # p.divider THEN << sendRegister(SI_PLL_RESET, 160) >> ELSE << >>)

\* The register writes of one si5351aSetFrequency call, in program order.
SetFrequencyWrites(p) ==
    setupPLL(SI_SYNTH_PLL_A, p.mult, p.num, p.denom)
    \o setupMultisynth(SI_SYNTH_MS_0, p.divider, SI_R_DIV_1)
    \o setupMultisynth(SI_SYNTH_MS_1, p.divider, SI_R_DIV_1)
    \o PhaseOffsets(p.divider)

\* The register file after the chip has received the writes ws in order.
RECURSIVE ApplyWrites(_, _)
ApplyWrites(file, ws) ==
    IF ws = << >> THEN file
    ELSE ApplyWrites([file EXCEPT ![Head(ws).reg] = Head(ws).val], Tail(ws))

NoPlan == [divider |-> 0, pllFreq |-> 0, quot |-> 0, mult |-> 0, l |-> 0,
           num |-> 0, denom |-> 0]

NoCall == [op |-> "none"]

(***************************************************************************)
(* Inputs.                                                                 *)
(***************************************************************************)
\* A grid over the tuning range and beyond it on both sides, the frequencies
\* around the ends of the range and around the band edge, the scenario
\* frequencies, and frequencies whose remainder l is 0, xtalFreq - 1 or close.
Freqs ==
    { k * FreqStep : k \in 0..FreqSteps }
    \cup { e + d : e \in {3500000, 9050000, 30000000}, d \in (-NearSpan)..NearSpan }
    \cup { 7100000, 7100010, 14200000, 24999117, 4636933, 6451385, 9090588, 10795073 }

\* Register files the chip may hold before the first call.
InitFiles ==
    { [r \in RegAddr |-> 0],
      [r \in RegAddr |-> 255],
      [r \in RegAddr |-> (37 * r + 11) % 256] }

\* Arguments of setupPLL: a grid of numerators, the numerators next to a
\* multiple of denom/128 (k * 8192 - 1 and k * 8192), and the largest ones.
Mults == { 15 + k * MultStep : k \in 0..MultSteps }

Nums ==
    { k * NumStep : k \in 0..NumSteps }
    \cup { k * 8192 - 1 : k \in 1..127 }
    \cup { k * 8192 : k \in 1..127 }
    \cup { 1, 227796, 1041112, 1048574 }

(***************************************************************************)
(* State machine.                                                          *)
(***************************************************************************)
Init ==
    /\ regs0 \in InitFiles
    /\ regs = regs0
    /\ writes = << >>
    /\ call = NoCall
    /\ plan = NoPlan
    /\ prevDivider = 0
    /\ rounding \in RoundingModes

si5351aSetFrequency(frequency) ==
    LET p == PlanLocals(frequency)
        ws == SetFrequencyWrites(p)
    IN  /\ plan' = p
        /\ writes' = ws
        /\ regs' = ApplyWrites(regs, ws)
        /\ call' = [op |-> "si5351aSetFrequency", frequency |-> frequency]
        /\ prevDivider' = plan.divider
        /\ UNCHANGED <<regs0, rounding>>

Next == \E frequency \in Freqs : si5351aSetFrequency(frequency)

Spec == Init /\ [][Next]_vars

\* setupPLL on its own: the arguments are drawn at the start (PLL A, the
\* denominator the planner uses) and one step applies the function to them.
InitPLL ==
    /\ regs0 \in InitFiles
    /\ regs = regs0
    /\ writes = << >>
    /\ call \in { [op |-> "args", pll |-> SI_SYNTH_PLL_A, mult |-> mult,
                   num |-> num, denom |-> 1048575] : mult \in Mults, num \in Nums }
    /\ plan = NoPlan
    /\ prevDivider = 0
    /\ rounding \in RoundingModes

setupPLLCall ==
    /\ call.op = "args"
    /\ LET ws == setupPLL(call.pll, call.mult, call.num, call.denom)
       IN  /\ writes' = ws
           /\ regs' = ApplyWrites(regs, ws)
    /\ call' = [call EXCEPT !.op = "setupPLL"]
    /\ UNCHANGED <<plan, prevDivider, regs0, rounding>>

NextPLL == setupPLLCall

SpecPLL == InitPLL /\ [][NextPLL]_vars

(***************************************************************************)
(* Vocabulary of the properties.                                           *)
(***************************************************************************)
Called == call.op = "si5351aSetFrequency"

InRange(F) == F \in 3500000..30000000

PLLRegs == 26..33
MS0Regs == 42..49
MS1Regs == 50..57
TuningRegs == PLLRegs \cup MS0Regs \cup MS1Regs \cup {165, 166}

\* The bytes the most recent call wrote to base .. base+7, in the order written.
RECURSIVE WrittenTo(_, _)
WrittenTo(ws, base) ==
    IF ws = << >> THEN << >>
    ELSE (IF Head(ws).reg \in base..(base + 7) THEN << Head(ws).val >> ELSE << >>)
         \o WrittenTo(Tail(ws), base)

\* The eight bytes the register file holds at base .. base+7.
Frame(base) == [i \in 1..8 |-> regs[base + i - 1]]

\* Section 4.3: the frame of an integer divider d with output divider /1:
\* P1 = 128 d - 512, P2 = 0, P3 = 1.
ExpectedMSFrame(d) ==
    LET P1 == 128 * d - 512
    IN  << 0, 1, (P1 \div 65536) % 4, (P1 \div 256) % 256, P1 % 256, 0, 0, 0 >>

\* The inverse of the layout of section 4.2, applied to the register file.
DecodeP1(base) == (regs[base + 2] % 4) * 65536 + regs[base + 3] * 256 + regs[base + 4]
DecodeP2(base) == (regs[base + 5] % 16) * 65536 + regs[base + 6] * 256 + regs[base + 7]
DecodeP3(base) == (regs[base + 5] \div 16) * 65536 + regs[base] * 256 + regs[base + 1]

\* C1: in the tuning range the frame written to 42..49 is that of divider 124
\* up to and including 9,050,000 Hz and that of divider 44 above, and the
\* frame written to 50..57 is the same eight bytes.
C1_BandFrames ==
    (Called /\ InRange(call.frequency)) =>
        /\ call.frequency <= 9050000 => WrittenTo(writes, 42) = ExpectedMSFrame(124)
        /\ call.frequency > 9050000 => WrittenTo(writes, 42) = ExpectedMSFrame(44)
        /\ WrittenTo(writes, 50) = WrittenTo(writes, 42)
        /\ Frame(42) = WrittenTo(writes, 42)
        /\ Frame(50) = WrittenTo(writes, 50)

C1_Witness ==
    /\ Called
    /\ call.frequency = 9050000
    /\ Frame(42) = << 0, 1, 0, 60, 0, 0, 0, 0 >>
    /\ Frame(50) = << 0, 1, 0, 60, 0, 0, 0, 0 >>

\* C2: after one or more calls register 165 holds the divider of the most
\* recent call, 44 or 124, which is the divider decoded from P1 of the MS0 and
\* of the MS1 frame, and register 166 holds 0.
C2_Quadrature ==
    Called =>
        /\ regs[165] = plan.divider
        /\ regs[165] \in {44, 124}
        /\ regs[165] < 128
        /\ \A base \in {42, 50} :
              /\ (DecodeP1(base) + 512) % 128 = 0
              /\ (DecodeP1(base) + 512) \div 128 = regs[165]
        /\ regs[166] = 0

C2_Witness ==
    /\ Called
    /\ prevDivider = 124
    /\ regs[165] = 44
    /\ DecodeP1(42) = 5120
    /\ regs0[166] = 255

\* C3: one call writes registers 26..33, then 42..49, then 50..57, then 165,
\* then 166, in exactly this order.
WriteGroup(r) ==
    IF r \in PLLRegs THEN 1
    ELSE IF r \in MS0Regs THEN 2
    ELSE IF r \in MS1Regs THEN 3
    ELSE IF r = 165 THEN 4
    ELSE IF r = 166 THEN 5
    ELSE 0

C3_WriteOrder ==
    Called =>
        /\ [i \in 1..Len(writes) |-> writes[i].reg] =
              << 26, 27, 28, 29, 30, 31, 32, 33,
                 42, 43, 44, 45, 46, 47, 48, 49,
                 50, 51, 52, 53, 54, 55, 56, 57,
                 165, 166 >>
        /\ \A i, j \in 1..Len(writes) :
              i < j => WriteGroup(writes[i].reg) <= WriteGroup(writes[j].reg)

C3_Witness ==
    /\ Called
    /\ Len(writes) = 26
    /\ writes[1].reg = 26
    /\ writes[26].reg = 166

\* C4: for mult in 15..90 and num in 0..1048574 with denom = 1048575 the eight
\* bytes setupPLL writes decode to P1 = 128 mult + floor(128 num / denom) - 512,
\* P2 = 128 num - denom floor(128 num / denom) and P3 = denom, the computed
\* P1, P2, P3 fit 18, 20 and 20 bits, and the upper six bits of byte +2 are 0.
C4_PLLRoundTrip ==
    (/\ call.op = "setupPLL"
     /\ call.mult \in 15..90
     /\ call.num \in 0..1048574
     /\ call.denom = 1048575) =>
        LET q == (128 * call.num) \div call.denom
        IN  /\ DecodeP1(call.pll) = 128 * call.mult + q - 512
            /\ DecodeP2(call.pll) = 128 * call.num - call.denom * q
            /\ DecodeP3(call.pll) = call.denom
            /\ setupPLL_P1(call.mult, call.num, call.denom).hi < 4
            /\ setupPLL_P2(call.num, call.denom).hi < 16
            /\ regs[call.pll + 2] < 4

\* C5 as stated: 7,100,000 Hz gives divider 124, pllFreq 880,400,000, mult 35,
\* remainder 19,730,905, num 827,532, denom 1048575.
C5_ScenarioS1_Original ==
    (Called /\ call.frequency = 7100000) =>
        /\ plan.divider = 124
        /\ plan.pllFreq = 880400000
        /\ plan.mult = 35
        /\ plan.l = 19730905
        /\ plan.num = 827532
        /\ plan.denom = 1048575

\* C5 amended: 7,100,000 Hz gives divider 124, pllFreq 880,400,000, mult 35,
\* remainder 5,430,905, num 227,796, denom 1048575, and registers 26..33
\* receive the frame of (35, 227796, 1048575).
C5_ScenarioS1 ==
    (Called /\ call.frequency = 7100000) =>
        /\ plan.divider = 124
        /\ plan.pllFreq = 880400000
        /\ plan.mult = 35
        /\ plan.l = 5430905
        /\ plan.l = 880400000 - 35 * 24999117
        /\ plan.num = 227796
        /\ plan.denom = 1048575
        /\ DecodeP1(26) = 128 * 35 + 27 - 512
        /\ DecodeP2(26) = 128 * 227796 - 1048575 * 27
        /\ DecodeP3(26) = 1048575

C5_Witness ==
    /\ Called
    /\ call.frequency = 7100000
    /\ plan.mult = 35
    /\ WrittenTo(writes, 26) = Frame(26)

\* C6 as stated: 14,200,000 Hz gives divider 44, pllFreq 624,800,000, mult 24,
\* remainder 24,820,192, num 1,041,069, denom 1048575.
C6_ScenarioS2_Original ==
    (Called /\ call.frequency = 14200000) =>
        /\ plan.divider = 44
        /\ plan.pllFreq = 624800000
        /\ plan.mult = 24
        /\ plan.l = 24820192
        /\ plan.num = 1041069
        /\ plan.denom = 1048575

\* C6 amended: 14,200,000 Hz gives divider 44, pllFreq 624,800,000, mult 24,
\* remainder 24,821,192, num 1,041,112, denom 1048575, and registers 26..33
\* receive the frame of (24, 1041112, 1048575).
C6_ScenarioS2 ==
    (Called /\ call.frequency = 14200000) =>
        /\ plan.divider = 44
        /\ plan.pllFreq = 624800000
        /\ plan.mult = 24
        /\ plan.l = 24821192
        /\ plan.l = 624800000 - 24 * 24999117
        /\ plan.num = 1041112
        /\ plan.denom = 1048575
        /\ DecodeP1(26) = 128 * 24 + 127 - 512
        /\ DecodeP2(26) = 128 * 1041112 - 1048575 * 127
        /\ DecodeP3(26) = 1048575

C6_Witness ==
    /\ Called
    /\ call.frequency = 14200000
    /\ plan.mult = 24
    /\ WrittenTo(writes, 26) = Frame(26)

\* C7 as stated: in the tuning range 600,000,000 <= pllFreq <= 900,000,000.
C7_VCOEnvelope_Original ==
    (Called /\ InRange(call.frequency)) =>
        /\ plan.pllFreq = plan.divider * call.frequency
        /\ 600000000 <= plan.pllFreq
        /\ plan.pllFreq <= 900000000

\* C7 amended: in the tuning range pllFreq = divider * F lies between
\* 398,200,044 and 1,320,000,000, and it is inside 600,000,000..900,000,000
\* exactly for 4,838,710 <= F <= 7,258,064 and 13,636,364 <= F <= 20,454,545.
C7_VCOEnvelope ==
    (Called /\ InRange(call.frequency)) =>
        /\ plan.pllFreq = plan.divider * call.frequency
        /\ plan.divider = (IF call.frequency <= 9050000 THEN 124 ELSE 44)
        /\ 398200044 <= plan.pllFreq
        /\ plan.pllFreq <= 1320000000
        /\ (plan.pllFreq \in 600000000..900000000) <=>
              \/ call.frequency \in 4838710..7258064
              \/ call.frequency \in 13636364..20454545

C7_Witness ==
    /\ Called
    /\ call.frequency = 9050001
    /\ plan.pllFreq = 398200044

\* C8: in the tuning range mult = pllFreq / xtalFreq is in 15..90 and is not
\* cut by the 8 bit parameter, num is in 0..1048575, denom = 1048575,
\* 15 <= mult + num/denom <= 90, and divider * F is below 2^32.
C8_PlanInRange ==
    (Called /\ InRange(call.frequency)) =>
        /\ plan.pllFreq = plan.divider * call.frequency
        /\ plan.pllFreq \div 65536 < 65536
        /\ plan.quot = plan.pllFreq \div 24999117
        /\ plan.mult = plan.quot
        /\ plan.mult \in 15..90
        /\ plan.num \in 0..1048575
        /\ plan.denom = 1048575
        /\ 15 * plan.denom <= plan.mult * plan.denom + plan.num
        /\ plan.mult * plan.denom + plan.num <= 90 * plan.denom

C8_Witness ==
    /\ Called
    /\ call.frequency = 6451385
    /\ plan.l = 24999113
    /\ plan.num >= 1048574

\* C9: after any sequence of calls ending with F, registers 26..33, 42..57,
\* 165 and 166 hold what one call with F produces on any initial register
\* file; nothing depends on the earlier calls or on the initial contents.
C9_TuneReplacesState ==
    Called =>
        \A file \in InitFiles : \A r \in TuningRegs :
            regs[r] = ApplyWrites(file, SetFrequencyWrites(PlanLocals(call.frequency)))[r]

C9_Witness ==
    /\ Called
    /\ prevDivider = 44
    /\ plan.divider = 124
    /\ regs0[47] = 255
    /\ regs[47] = 0

\* C10: a call writes only registers 26..33, 42..57, 165 and 166; register 177
\* is never written and every other register (3, 15..18, 183, 34..41, 58..65
\* among them) keeps the value it had before the first call, also when the
\* divider changes between successive calls.
C10_Frame ==
    Called =>
        /\ \A i \in 1..Len(writes) :
              /\ writes[i].reg \in TuningRegs
              /\ writes[i].reg # SI_PLL_RESET
        /\ \A r \in RegAddr \ TuningRegs : regs[r] = regs0[r]
        /\ \A r \in {CLK_ENABLE_CONTROL, PLLX_SRC, SI_CLK0_CONTROL, SI_CLK1_CONTROL,
                     SI_CLK2_CONTROL, SI_PLL_RESET, XTAL_LOAD_CAP}
                    \cup SI_SYNTH_PLL_B..(SI_SYNTH_PLL_B + 7)
                    \cup SI_SYNTH_MS_2..(SI_SYNTH_MS_2 + 7) : regs[r] = regs0[r]

C10_Witness ==
    /\ Called
    /\ prevDivider = 124
    /\ plan.divider = 44
    /\ regs0[177] = 255
    /\ regs[177] = 255
    /\ regs[165] = 44

====
